---- MODULE Spec2Model ----
(***************************************************************************)
(* A model of the crate try-transform-mut (src/src/lib.rs).                *)
(*                                                                         *)
(* The crate has one trait, TryTransform, implemented for &'a T and for    *)
(* &'a mut T.  The pointee type T of the model is the HashMap<usize,usize> *)
(* of the crate's own test; a memory holds one such map per location.      *)
(* One call of try_transform is a sequence of steps (the lines of the      *)
(* function body), so that the instants before, during and after the       *)
(* closure are states of the model.  The closure f is an input: it is      *)
(* drawn from a catalogue of closures that the bound                       *)
(* F: FnOnce(Self) -> Option<B> admits.                                     *)
(***************************************************************************)
EXTENDS Integers, Sequences, FiniteSets, TLC

\* ------------------------------------------------------------------ bounds
NumAddrs == 2        \* locations that hold a map
NumKeys  == 2        \* keys of a map
MaxVal   == 1        \* values are 0..MaxVal
MaxCalls == 2        \* calls one behaviour makes

\* ------------------------------------------------------------- data model
Null     == 0                         \* the null raw pointer (as_mut's None)
Default  == 0                         \* usize::default(), V::default() of the test
Addr     == 1..NumAddrs
Key      == 1..NumKeys
Val      == 0..MaxVal
Lifetime == {"'r", "'s"}

\* Option<X>: None, or Some(x).
None     == <<>>
Some(x)  == <<x>>
IsSome(o) == o # None
Unwrap(o) == o[1]

\* HashMap<usize, usize>: each key is absent (None) or holds Some(v), v in Val.
\* HashMap::new() has no entry.
EmptyMap == [k \in Key |-> None]

\* A reference value: its kind, the location it designates, its lifetime.
Ref(kd, a, lt) == [kind |-> kd, addr |-> a, lt |-> lt]

\* The values of type B the closures of the model produce: a plain value, or
\* an exclusive reference to the entry of key k in the map at a (&'a mut V).
PlainVal(v)   == [tag |-> "val",  addr |-> Null, key |-> 0, v |-> v]
SlotRef(a, k) == [tag |-> "slot", addr |-> a,    key |-> k, v |-> 0]

\* Result<B, Self>
Ok(b)  == [tag |-> "Ok",  val |-> Some(b), ref |-> None]
Err(r) == [tag |-> "Err", val |-> None,    ref |-> Some(r)]
NoRet  == [tag |-> "none", val |-> None,   ref |-> None]

\* ------------------------------------------------------------ the closures
\* What a closure is: its body (op) and what it captured (key, v).
Closure(op, k, v) == [op |-> op, key |-> k, v |-> v]
NoClosure == Closure("none", 0, 0)

\* A closure that never finds the key.
NeverFoundClosure(k) == Closure("none", k, 0)

\* |m| m.get_mut(&key): the closure of get_default.
GetMutClosure(k) == Closure("get_mut", k, 0)

\* Closures on an exclusive reference:
\*   get_mut(k)   |m| m.get_mut(&k)
\*   insert(k,v)  |m| m.insert(k, v)   writes, then Some(old value) or None;
\*                                     v is the largest value
\*   stash        |r| { *slot = Some(r); None }   keeps its argument in a
\*                                     variable it captured by reference
MutClosures ==
    {GetMutClosure(k) : k \in Key}
    \cup {Closure("insert", k, MaxVal) : k \in Key}
    \cup {Closure("stash", 0, 0)}

\* Closures on a shared reference:  get(k)  |m| m.get(&k).copied()
SharedClosures == {Closure("get", k, 0) : k \in Key}

VARIABLES
    mem,        \* the owners' values: a map at each location
    pc,         \* where the current call is
    orig,       \* the reference value the caller passed in (None when idle)
    self,       \* try_transform's parameter self (None once moved out)
    this,       \* the raw pointer captured at line 70 (Option)
    f,          \* the closure passed in
    fres,       \* what f returned (Option<B>), once it has returned
    ret,        \* what try_transform returned
    live,       \* the live reference values to the pointee, each with its holder
    memBefore,  \* the memory when the call was made
    memAfterF,  \* the memory as f left it
    log,        \* the events of the current call, in order
    gdKey,      \* Some(key) while get_default runs
    gdRet,      \* the reference get_default returned
    lastUse,    \* the caller's last use of a returned reference
    calls       \* calls completed

vars == <<mem, pc, orig, self, this, f, fres, ret, live, memBefore, memAfterF,
          log, gdKey, gdRet, lastUse, calls>>

NoUse == [via |-> "none", addr |-> Null, key |-> 0, v |-> None]

\* A live reference value and the binding that holds it.
Held(h, r) == [holder |-> h, ref |-> r]

Init ==
    /\ mem = [a \in Addr |-> EmptyMap]
    /\ pc = "idle"
    /\ orig = None
    /\ self = None
    /\ this = None
    /\ f = NoClosure
    /\ fres = None
    /\ ret = NoRet
    /\ live = {}
    /\ memBefore = mem
    /\ memAfterF = mem
    /\ log = <<>>
    /\ gdKey = None
    /\ gdRet = None
    /\ lastUse = NoUse
    /\ calls = 0

\* ------------------------------------------------- HashMap, as the code uses it
\* m.get(&k).copied()
get(m, k) == m[k]

\* m.get_mut(&k), on the map at location a: a reference to the entry, if any.
get_mut(m, a, k) == IF IsSome(m[k]) THEN Some(SlotRef(a, k)) ELSE None

\* m.insert(k, v): the map afterwards (the call returns the old entry, m[k]).
insert(m, k, v) == [m EXCEPT ![k] = Some(v)]

\* ------------------------------------------------------- running a closure
\* What fn returns when called with a reference to the map m at location a.
FResult(fn, a, m) ==
    CASE fn.op = "get_mut" -> get_mut(m, a, fn.key)
      [] fn.op = "insert"  -> IF IsSome(m[fn.key])
                                 THEN Some(PlainVal(Unwrap(m[fn.key])))
                                 ELSE None
      [] fn.op = "get"     -> IF IsSome(get(m, fn.key))
                                 THEN Some(PlainVal(Unwrap(get(m, fn.key))))
                                 ELSE None
      [] OTHER             -> None

\* The map at a once fn has run on it.
FWrites(fn, m) ==
    IF fn.op = "insert" THEN insert(m, fn.key, fn.v) ELSE m

\* Where the reference fn was given is once fn has returned: inside the value
\* it returned ("value"), in the closure's environment ("stash"), or nowhere.
FKeeps(fn, res) ==
    CASE fn.op = "get_mut" /\ IsSome(res) -> "value"
      [] fn.op = "stash"                  -> "stash"
      [] OTHER                            -> "drop"

\* ------------------------------------------- the pieces of try_transform
\* The address of the parameter's own stack slot, not of the pointee
\* (&mut self as *mut _): some other location.
CaptureAddrOfLocal(r) == (r.addr % NumAddrs) + 1

\* A pointer that was never set.
CaptureNull(r) == Null

\* let this: *mut T = self as _;
CaptureAddr(r) == r.addr

\* as_mut's result kept at the unbounded lifetime the raw pointer allows.
as_mut_unbounded(p, lt) ==
    IF p = Null THEN None ELSE Some(Ref("mut", p, "'static"))

\* this.as_mut(): None for the null pointer, else a reference to *this, of the
\* lifetime the return type Self asks for.
as_mut(p, lt) == IF p = Null THEN None ELSE Some(Ref("mut", p, lt))

\* Without the early return: Err whatever f returned.
OutcomeAlwaysErr(res, r) == Err(r)

\* Ok of a default value instead of f's value.
OutcomeDefaultValue(res, r) ==
    IF IsSome(res) THEN Ok(PlainVal(Default)) ELSE Err(r)

\* if let Some(v) = f(self) { return Ok(v); }  Err(r)
Outcome(res, r) == IF IsSome(res) THEN Ok(Unwrap(res)) ELSE Err(r)

\* A reference to some other location.
SharedErrElsewhere(r) == Ref(r.kind, (r.addr % NumAddrs) + 1, r.lt)

\* Err(self) of the shared implementation: the parameter itself.
SharedErr(r) == r

\* ----------------------------------------------------------------- actions
StartCall(r, fn, key) ==
    /\ pc = "idle"
    /\ calls < MaxCalls
    /\ orig' = Some(r)
    /\ self' = Some(r)
    /\ f' = fn
    /\ live' = {Held("self", r)}
    /\ memBefore' = mem
    /\ memAfterF' = mem
    /\ gdKey' = key
    /\ UNCHANGED <<mem, this, fres, ret, log, gdRet, lastUse, calls>>

\* r.try_transform(fn) on a shared reference r to the map at a.
CallShared ==
    \E a \in Addr, lt \in Lifetime, fn \in SharedClosures :
        /\ StartCall(Ref("shared", a, lt), fn, None)
        /\ pc' = "l56"

\* r.try_transform(fn) on an exclusive reference r to the map at a.
CallMut ==
    \E a \in Addr, lt \in Lifetime, fn \in MutClosures :
        /\ StartCall(Ref("mut", a, lt), fn, None)
        /\ pc' = "l70"

\* get_default(map, key): map.try_transform(|m| m.get_mut(&key))
GetDefault ==
    \E a \in Addr, lt \in Lifetime, k \in Key :
        /\ StartCall(Ref("mut", a, lt), GetMutClosure(k), Some(k))
        /\ pc' = "l70"

\* line 70
Capture ==
    /\ pc = "l70"
    /\ this' = Some(CaptureAddr(Unwrap(self)))
    /\ log' = Append(log, "capture")
    /\ pc' = "l72"
    /\ UNCHANGED <<mem, orig, self, f, fres, ret, live, memBefore, memAfterF,
                   gdKey, gdRet, lastUse, calls>>

\* f(self): the exclusive reference is moved into f, the shared one copied.
InvokeF ==
    /\ pc \in {"l56", "l72"}
    /\ LET r == Unwrap(self) IN
        IF r.kind = "mut"
           THEN /\ self' = None
                /\ live' = (live \ {Held("self", r)}) \cup {Held("f", r)}
           ELSE /\ self' = self
                /\ live' = live \cup {Held("f", r)}
    /\ log' = Append(log, "call_f")
    /\ pc' = "in_f"
    /\ UNCHANGED <<mem, orig, this, f, fres, ret, memBefore, memAfterF,
                   gdKey, gdRet, lastUse, calls>>

\* f runs and returns.
FReturn ==
    /\ pc = "in_f"
    /\ LET r    == Unwrap(orig)
           res  == FResult(f, r.addr, mem[r.addr])
           keep == FKeeps(f, res)
       IN /\ fres' = res
          /\ mem' = [mem EXCEPT ![r.addr] = FWrites(f, @)]
          /\ memAfterF' = mem'
          /\ live' = (live \ {Held("f", r)})
                     \cup (IF keep = "drop" THEN {} ELSE {Held(keep, r)})
    /\ log' = Append(log, "f_return")
    /\ pc' = "matched"
    /\ UNCHANGED <<orig, self, this, f, ret, memBefore, gdKey, gdRet, lastUse,
                   calls>>

\* lines 72-76 (exclusive) and 56-60 (shared): Ok(v), or Err of the reference.
\* m is the memory the function leaves behind.
ReturnBody(m) ==
    /\ pc = "matched"
    /\ mem' = m
    /\ LET o == Unwrap(orig) IN
        IF o.kind = "mut"
           THEN LET back == IF IsSome(fres) THEN None
                            ELSE as_mut(Unwrap(this), o.lt)
                IN IF ~IsSome(fres) /\ back = None
                      THEN /\ pc' = "panicked"     \* unwrap() of None
                           /\ UNCHANGED <<ret, live, log, self>>
                      ELSE /\ ret' = Outcome(fres, IF IsSome(back)
                                                      THEN Unwrap(back) ELSE o)
                           /\ live' = live \cup
                                (IF ret'.tag = "Err"
                                    THEN {Held("err", Unwrap(ret'.ref))} ELSE {})
                           /\ log' = IF ret'.tag = "Err"
                                        THEN Append(log, "reconstitute") ELSE log
                           /\ self' = self
                           /\ pc' = "done"
           ELSE /\ ret' = Outcome(fres, SharedErr(Unwrap(self)))
                /\ live' = (live \ {Held("self", Unwrap(self))}) \cup
                             (IF ret'.tag = "Err"
                                 THEN {Held("err", Unwrap(ret'.ref))} ELSE {})
                /\ self' = None
                /\ log' = log
                /\ pc' = "done"
    /\ UNCHANGED <<orig, this, f, fres, memBefore, memAfterF, gdKey, gdRet,
                   lastUse, calls>>

\* A try_transform that undoes f's writes when f declines.
ReturnRollback == ReturnBody(IF IsSome(fres) THEN mem ELSE memBefore)

\* try_transform writes nothing itself.
Return == ReturnBody(mem)

\* ------------------------------------------------ the caller, after the call
\* The caller of try_transform writes through the exclusive reference of Err.
WriteThroughErr ==
    /\ pc = "done" /\ gdKey = None /\ lastUse = NoUse
    /\ ret.tag = "Err" /\ Unwrap(ret.ref).kind = "mut"
    /\ \E k \in Key, v \in Val :
        LET r == Unwrap(ret.ref) IN
        /\ mem' = [mem EXCEPT ![r.addr] = insert(@, k, v)]
        /\ lastUse' = [via |-> "err_write", addr |-> r.addr, key |-> k,
                       v |-> Some(v)]
    /\ UNCHANGED <<pc, orig, self, this, f, fres, ret, live, memBefore,
                   memAfterF, log, gdKey, gdRet, calls>>

\* The caller of try_transform reads through the shared reference of Err.
ReadThroughErr ==
    /\ pc = "done" /\ gdKey = None /\ lastUse = NoUse
    /\ ret.tag = "Err" /\ Unwrap(ret.ref).kind = "shared"
    /\ \E k \in Key :
        LET r == Unwrap(ret.ref) IN
        lastUse' = [via |-> "err_read", addr |-> r.addr, key |-> k,
                    v |-> get(mem[r.addr], k)]
    /\ UNCHANGED <<mem, pc, orig, self, this, f, fres, ret, live, memBefore,
                   memAfterF, log, gdKey, gdRet, calls>>

\* get_default, Ok(value) => value
GetDefaultOk ==
    /\ pc = "done" /\ IsSome(gdKey)
    /\ ret.tag = "Ok"
    /\ gdRet' = ret.val
    /\ pc' = "gd_done"
    /\ UNCHANGED <<mem, orig, self, this, f, fres, ret, live, memBefore,
                   memAfterF, log, gdKey, lastUse, calls>>

\* get_default, Err(map) => { map.insert(key, V::default());
\*                            map.get_mut(&key).unwrap() }
GetDefaultErr ==
    /\ pc = "done" /\ IsSome(gdKey)
    /\ ret.tag = "Err"
    /\ LET map == Unwrap(ret.ref)
           key == Unwrap(gdKey)
           m2  == insert(mem[map.addr], key, Default)
           o   == get_mut(m2, map.addr, key)
       IN /\ mem' = [mem EXCEPT ![map.addr] = m2]
          /\ IF o = None
                THEN /\ pc' = "panicked"          \* unwrap() of None
                     /\ UNCHANGED <<gdRet, live>>
                ELSE /\ gdRet' = o
                     /\ live' = (live \ {Held("err", map)})
                                \cup {Held("value", map)}
                     /\ pc' = "gd_done"
    /\ UNCHANGED <<orig, self, this, f, fres, ret, memBefore, memAfterF, log,
                   gdKey, lastUse, calls>>

\* The caller of get_default writes through the reference it was given.
WriteSlot ==
    /\ pc = "gd_done" /\ lastUse = NoUse
    /\ \E v \in Val :
        LET s == Unwrap(gdRet) IN
        /\ mem' = [mem EXCEPT ![s.addr] = insert(@, s.key, v)]
        /\ lastUse' = [via |-> "slot_write", addr |-> s.addr, key |-> s.key,
                       v |-> Some(v)]
    /\ UNCHANGED <<pc, orig, self, this, f, fres, ret, live, memBefore,
                   memAfterF, log, gdKey, gdRet, calls>>

\* The references of the call go out of scope; the owners keep their values.
Finish ==
    /\ \/ pc = "done" /\ gdKey = None
       \/ pc = "gd_done"
    /\ pc' = "idle"
    /\ orig' = None
    /\ self' = None
    /\ this' = None
    /\ f' = NoClosure
    /\ fres' = None
    /\ ret' = NoRet
    /\ live' = {}
    /\ memBefore' = mem
    /\ memAfterF' = mem
    /\ log' = <<>>
    /\ gdKey' = None
    /\ gdRet' = None
    /\ lastUse' = NoUse
    /\ calls' = calls + 1
    /\ UNCHANGED mem

Next ==
    \/ CallShared
    \/ CallMut
    \/ GetDefault
    \/ Capture
    \/ InvokeF
    \/ FReturn
    \/ Return
    \/ WriteThroughErr
    \/ ReadThroughErr
    \/ GetDefaultOk
    \/ GetDefaultErr
    \/ WriteSlot
    \/ Finish

Spec == Init /\ [][Next]_vars

\* ------------------------------------------------------------- properties
Returned == pc \in {"done", "gd_done"}
InCall   == pc \in {"l56", "l70", "l72", "in_f", "matched", "done"}

\* The live reference values of kind kd that designate location a.
LiveRefs(kd, a) == {h \in live : h.ref.kind = kd /\ h.ref.addr = a}

\* C1: try_transform returns Ok(v) exactly when f returned Some(v), with f's
\* v and no reference; it returns Err(r') exactly when f returned None, with
\* r' of the kind and pointee of the reference passed in; nothing else.
C1_OutcomeFollowsF ==
    Returned =>
        /\ ret.tag \in {"Ok", "Err"}
        /\ (ret.tag = "Ok") <=> IsSome(fres)
        /\ (ret.tag = "Err") <=> (fres = None)
        /\ IsSome(fres) => ret.val = fres /\ ret.ref = None
        /\ fres = None =>
              /\ ret.val = None
              /\ IsSome(ret.ref)
              /\ Unwrap(ret.ref).kind = Unwrap(orig).kind
              /\ Unwrap(ret.ref).addr = Unwrap(orig).addr

\* A closure that wrote and then succeeded: Ok of the old value, which is
\* not the default.
C1_Witness ==
    /\ pc = "done"
    /\ f.op = "insert"
    /\ ret.tag = "Ok"
    /\ ret.val # Some(PlainVal(Default))

\* C2: at every instant during and after a call on an exclusive reference,
\* at most one exclusive reference value to the pointee is live, whatever
\* closure the bound FnOnce(&mut T) -> Option<B> admits.
C2_AtMostOneExclusive ==
    \A a \in Addr : Cardinality(LiveRefs("mut", a)) <= 1

\* C3: when f declines, the exclusive reference of Err designates the location
\* of the reference passed in, which is the address captured; a write through
\* it lands in that location, where the owner reads it, and nowhere else.
C3_ErrDesignatesSameLocation ==
    /\ (pc = "done" /\ ret.tag = "Err" /\ Unwrap(orig).kind = "mut") =>
          /\ Unwrap(ret.ref).addr = Unwrap(orig).addr
          /\ Unwrap(ret.ref).addr = Unwrap(this)
    /\ lastUse.via = "err_write" =>
          /\ lastUse.addr = Unwrap(orig).addr
          /\ mem[Unwrap(orig).addr][lastUse.key] = lastUse.v
          /\ \A a \in Addr \ {Unwrap(orig).addr} : mem[a] = memAfterF[a]

\* A write through the reference of Err that changed the owner's map.
C3_Witness ==
    /\ lastUse.via = "err_write"
    /\ f.op \in {"get_mut", "insert"}
    /\ mem[Unwrap(orig).addr] # memAfterF[Unwrap(orig).addr]

\* C4: get_default with an absent key inserts exactly the entry
\* key -> V::default() and returns a reference to it; with a present key it
\* returns a reference to the stored entry and leaves the whole memory as it
\* was, so the value a caller wrote through an earlier reference is the value
\* behind the reference of a later call.
C4_GetDefault ==
    (pc = "gd_done" /\ lastUse = NoUse) =>
        LET a == Unwrap(orig).addr
            k == Unwrap(gdKey)
        IN /\ gdRet = Some(SlotRef(a, k))
           /\ IF memBefore[a][k] = None
                 THEN mem = [memBefore EXCEPT ![a][k] = Some(Default)]
                 ELSE /\ mem = memBefore
                      /\ mem[Unwrap(gdRet).addr][Unwrap(gdRet).key]
                            = memBefore[a][k]

\* A second get_default of a key whose entry an earlier caller set to a value
\* that is not the default.
C4_Witness ==
    /\ pc = "gd_done"
    /\ calls >= 1
    /\ IsSome(memBefore[Unwrap(orig).addr][Unwrap(gdKey)])
    /\ memBefore[Unwrap(orig).addr][Unwrap(gdKey)] # Some(Default)
    /\ ret.tag = "Ok"

\* C5: the reference of Err has the kind and the lifetime of the reference
\* passed in.
C5_KindAndLifetimeKept ==
    (Returned /\ ret.tag = "Err") =>
        /\ Unwrap(ret.ref).kind = Unwrap(orig).kind
        /\ Unwrap(ret.ref).lt = Unwrap(orig).lt

\* An exclusive reference of lifetime 's came back in Err.
C5_Witness ==
    /\ pc = "done"
    /\ ret.tag = "Err"
    /\ Unwrap(orig) \in {Ref("mut", a, "'s") : a \in Addr}

\* C6: try_transform never panics: the captured address is never null, so
\* the unwrap of as_mut succeeds; and a call that has begun can always take
\* its next step until it has returned Ok or Err.
C6_NeverPanics ==
    /\ pc # "panicked"
    /\ IsSome(this) => Unwrap(this) # Null
    /\ pc \in {"l56", "l70", "l72", "in_f", "matched"} =>
          ENABLED (Capture \/ InvokeF \/ FReturn \/ Return)
    /\ Returned => ret.tag \in {"Ok", "Err"}

\* The decline path of the exclusive implementation was taken and returned.
C6_Witness ==
    /\ pc = "done"
    /\ fres = None
    /\ Unwrap(orig).kind = "mut"
    /\ IsSome(this)
    /\ ret.tag = "Err"

\* C7: try_transform writes nothing: when it returns, the memory is as f left
\* it (for a shared reference, as it was before the call); what an inserting
\* closure wrote is there whether it then succeeded or declined; and Ok
\* carries the value f computed.
C7_WritesNothing ==
    (pc = "done" /\ lastUse = NoUse) =>
        /\ mem = memAfterF
        /\ Unwrap(orig).kind = "shared" => mem = memBefore
        /\ f.op = "insert" =>
              /\ mem[Unwrap(orig).addr][f.key] = Some(f.v)
              /\ \A a \in Addr, k \in Key :
                    (a # Unwrap(orig).addr \/ k # f.key) =>
                        mem[a][k] = memBefore[a][k]
        /\ f.op # "insert" => mem = memBefore
        /\ ret.tag = "Ok" => ret.val = fres

\* A closure wrote to the map and then declined: the write is still there.
C7_Witness ==
    /\ pc = "done"
    /\ lastUse = NoUse
    /\ f.op = "insert"
    /\ ret.tag = "Err"
    /\ mem # memBefore

\* C8: on a shared reference, a closure that declines gets Err of a shared
\* reference to the same location, whose map is the one before the call, and
\* a read through it yields the entry of that map; looking up a present key
\* yields Ok of its value, an absent key Err.
C8_SharedIdentity ==
    /\ (pc = "done" /\ Unwrap(orig).kind = "shared") =>
          LET a == Unwrap(orig).addr IN
          /\ fres = None =>
                /\ ret.tag = "Err"
                /\ Unwrap(ret.ref).kind = "shared"
                /\ Unwrap(ret.ref).addr = a
                /\ mem[Unwrap(ret.ref).addr] = memBefore[a]
          /\ IsSome(memBefore[a][f.key]) =>
                ret = Ok(PlainVal(Unwrap(memBefore[a][f.key])))
          /\ memBefore[a][f.key] = None => ret.tag = "Err"
    /\ lastUse.via = "err_read" =>
          /\ lastUse.addr = Unwrap(orig).addr
          /\ lastUse.v = memBefore[Unwrap(orig).addr][lastUse.key]

\* A lookup of an absent key in a map that has another entry, and then a read
\* of that entry through the reference of Err.
C8_Witness ==
    /\ lastUse.via = "err_read"
    /\ IsSome(lastUse.v)
    /\ lastUse.key # f.key

\* C9: at every instant of a call on an exclusive reference, exactly one
\* exclusive reference value designates the pointee: one before f is called,
\* one while f runs, one in Err; and never two at any instant, also after f
\* has returned and when Ok was returned.
C9_ExactlyOneReference ==
    (InCall /\ Unwrap(orig).kind = "mut") =>
        LET n == Cardinality(LiveRefs("mut", Unwrap(orig).addr)) IN
        /\ n <= 1
        /\ (pc \in {"l70", "l72", "in_f"} \/ ret.tag = "Err") => n = 1

\* C10: in a call on an exclusive reference the address is captured, then f
\* is called once, then f returns, then - only if f returned None - one
\* reference is made from the captured address.
CallOrder == <<"capture", "call_f", "f_return", "reconstitute">>

C10_EventOrder ==
    (pc # "idle" /\ Unwrap(orig).kind = "mut") =>
        /\ Len(log) <= Len(CallOrder)
        /\ log = SubSeq(CallOrder, 1, Len(log))
        /\ pc = "in_f" => IsSome(this)
        /\ Len(log) = Len(CallOrder) => (pc # "matched" /\ fres = None)
        /\ Returned =>
              /\ Len(log) >= Len(CallOrder) - 1
              /\ IsSome(fres) => Len(log) = Len(CallOrder) - 1
              /\ fres = None => Len(log) = Len(CallOrder)

\* A call on an exclusive reference that succeeded: three events, no
\* reference made from the address.
C10_Witness ==
    /\ pc = "done"
    /\ Unwrap(orig).kind = "mut"
    /\ IsSome(fres)
    /\ log = SubSeq(CallOrder, 1, Len(CallOrder) - 1)

====
